---- MODULE Spec2Model ----
(***************************************************************************)
(* The pricing engine of the courier application: the DeliveryType /       *)
(* PricingRule catalog, the legacy PricingTier / PricingConfiguration      *)
(* tables, and the two evaluations that read them: calculate_quote_api     *)
(* (orders/views.py) and Order.calculate_auto_price (orders/models.py).    *)
(* With it, what writes the catalog (the PricingRule admin forms and the   *)
(* setup_helpii_pricing command) and the life of an order: Order.save and  *)
(* its order_id, the staff actions of admin_order_detail_view, and the     *)
(* payment views (payments/views.py) with the two gateways.                *)
(*                                                                         *)
(* Units.  Stored money (DecimalField, 2 places) is in cents.  Weights are *)
(* in hundredths of a kg.  Distances are in quarters of a km.  A price     *)
(* before rounding is kept exactly, in the unit its formula needs          *)
(* (quarter cents for a rule price, thousandths of a cent for the legacy   *)
(* configuration price), and rounded once by Round.                        *)
(*                                                                         *)
(* A nullable field is None (the empty tuple) or Some(v) (a 1-tuple).      *)
(***************************************************************************)
EXTENDS Integers, Sequences, FiniteSets, TLC

VARIABLES deliveryTypes, pricingRules, pricingTiers, pricingConfig, last, setup,
          orders, payments, gateway, today, saving

\* The pricing catalog, the evaluation in flight and the position of the
\* setup_helpii_pricing command.
pricingVars == <<deliveryTypes, pricingRules, pricingTiers, pricingConfig, last, setup>>

\* The orders table, the payments table, the payment gateways' own records,
\* the calendar day of the server clock and the Order.save calls in flight.
orderVars == <<orders, payments, gateway, today, saving>>

vars == <<deliveryTypes, pricingRules, pricingTiers, pricingConfig, last, setup,
          orders, payments, gateway, today, saving>>

None == <<>>

Some(v) == <<v>>

Val(x) == x[1]

\* Python truthiness of a nullable Decimal: None and 0 are both falsy.
Truthy(x) == x # None /\ Val(x) # 0

(***************************************************************************)
(* Bounds of the model.                                                    *)
(***************************************************************************)
MaxRules == 2

MaxTiers == 1

MaxWeight == 2

MaxDistance == 2

\* Concurrent Order.save calls, stored orders, the largest number in an
\* order_id, and the last day of the clock.
MaxSavers == 2

MaxOrders == 3

MaxNumber == 3

\* Payments started in one run.
MaxPayments == 2

MaxDay == 1

\* Request inputs.  Weights include a negative and zero, and with them the
\* values at and next to every weight bound and distance threshold of the
\* catalog.  Codes are those of the DeliveryType rows and "FOO", a code that
\* names no DeliveryType.
RuleWeights ==
    UNION {{r.weight_min - 1, r.weight_min, r.weight_min + 1}
           \cup (IF r.weight_max = None THEN {}
                 ELSE {Val(r.weight_max) - 1, Val(r.weight_max), Val(r.weight_max) + 1}) :
           r \in pricingRules}

RuleDistances ==
    UNION {IF r.distance_threshold = None THEN {}
           ELSE {d \in {Val(r.distance_threshold) - 1, Val(r.distance_threshold),
                        Val(r.distance_threshold) + 1} : d >= 0} :
           r \in pricingRules}

Weights == (-1 .. MaxWeight) \cup RuleWeights

Distances == (0 .. MaxDistance) \cup RuleDistances

Codes == {t.code : t \in deliveryTypes} \cup {"FOO"}

ParcelTypes == {"GENERAL", "FRAGILE"}

(***************************************************************************)
(* PricingRule.matches                                                     *)
(***************************************************************************)
oversize_gate_lenient(rule, is_oversize) ==
    IF rule.is_oversize_rule /\ ~is_oversize
    THEN FALSE
    ELSE TRUE

oversize_gate(rule, is_oversize) ==
    IF rule.is_oversize_rule /\ ~is_oversize
    THEN FALSE
    ELSE IF ~rule.is_oversize_rule /\ is_oversize
              /\ rule.delivery_type # "EXPRESS_2HR"
         THEN FALSE
         ELSE TRUE

weight_gate_exclusive(rule, weight) ==
    IF weight < rule.weight_min
    THEN FALSE
    ELSE IF Truthy(rule.weight_max) /\ weight >= Val(rule.weight_max)
         THEN FALSE
         ELSE TRUE

weight_gate(rule, weight) ==
    IF weight < rule.weight_min
    THEN FALSE
    ELSE IF Truthy(rule.weight_max) /\ weight > Val(rule.weight_max)
         THEN FALSE
         ELSE TRUE

distance_gate_exclusive(rule, distance) ==
    IF rule.is_short_trip # None /\ Truthy(rule.distance_threshold)
    THEN LET threshold == Val(rule.distance_threshold)
         IN  IF Val(rule.is_short_trip) /\ distance >= threshold
             THEN FALSE
             ELSE IF ~Val(rule.is_short_trip) /\ distance <= threshold
                  THEN FALSE
                  ELSE TRUE
    ELSE TRUE

distance_gate(rule, distance) ==
    IF rule.is_short_trip # None /\ Truthy(rule.distance_threshold)
    THEN LET threshold == Val(rule.distance_threshold)
         IN  IF Val(rule.is_short_trip) /\ distance > threshold
             THEN FALSE
             ELSE IF ~Val(rule.is_short_trip) /\ distance <= threshold
                  THEN FALSE
                  ELSE TRUE
    ELSE TRUE

matches_ignoring_oversize(rule, weight_kg, distance_km, is_oversize) ==
    /\ (rule.is_oversize_rule => is_oversize)
    /\ weight_gate(rule, weight_kg)
    /\ distance_gate(rule, distance_km)

matches(rule, weight_kg, distance_km, is_oversize) ==
    /\ oversize_gate(rule, is_oversize)
    /\ weight_gate(rule, weight_kg)
    /\ distance_gate(rule, distance_km)

(***************************************************************************)
(* Python's round(x, 2) on the float x: the cent nearest to the binary     *)
(* value of x, and the even cent when x lies exactly half way.  v is the   *)
(* exact decimal value in units of 1/unit cent.  When every operand is a   *)
(* multiple of 0.25 the float arithmetic is exact (exact = TRUE) and a tie *)
(* goes to the even cent; otherwise the float lies a rounding error above  *)
(* or below the tie and either neighbour can result (up).                  *)
(***************************************************************************)
Round(v, unit, exact, up) ==
    LET q == v \div unit
        r == v % unit
    IN  IF 2 * r < unit THEN q
        ELSE IF 2 * r > unit THEN q + 1
        ELSE IF exact THEN (IF q % 2 = 0 THEN q ELSE q + 1)
        ELSE IF up THEN q + 1 ELSE q

\* A value in hundredths is exactly representable in binary iff it is a
\* multiple of 25 (0.25); quarter km are always exact.
Dyadic(c) == c % 25 = 0

(***************************************************************************)
(* PricingRule.calculate_price.  calculated_total is `total` before the    *)
(* surcharge (quarter cents); calculate_price returns it with the total    *)
(* after the surcharge and the rounded price (cents).                      *)
(***************************************************************************)
per_km_total_with_weight(rule, base_price, distance_km, weight_kg) ==
    LET rate == IF Truthy(rule.rate_per_km) THEN Val(rule.rate_per_km) ELSE 0
    IN  4 * base_price + rate * distance_km + 4 * weight_kg

per_km_total_discounted(rule, base_price, distance_km, weight_kg) ==
    LET rate == IF Truthy(rule.rate_per_km) THEN Val(rule.rate_per_km) ELSE 0
    IN  4 * base_price - rate * distance_km

per_km_total(rule, base_price, distance_km, weight_kg) ==
    LET rate == IF Truthy(rule.rate_per_km) THEN Val(rule.rate_per_km) ELSE 0
    IN  4 * base_price + rate * distance_km

calculated_total_no_fallback(rule, base_price, distance_km, weight_kg) ==
    IF rule.calculation_type = "FLAT"
    THEN IF Truthy(rule.flat_total) THEN 4 * Val(rule.flat_total) ELSE 0
    ELSE IF rule.calculation_type = "CAPPED"
    THEN LET rate == IF Truthy(rule.rate_per_km) THEN Val(rule.rate_per_km) ELSE 0
             calculated == 4 * base_price + rate * distance_km
             max_cap == IF Truthy(rule.max_price) THEN 4 * Val(rule.max_price)
                                                  ELSE calculated
         IN  IF calculated <= max_cap THEN calculated ELSE max_cap
    ELSE per_km_total(rule, base_price, distance_km, weight_kg)

calculated_total(rule, base_price, distance_km, weight_kg) ==
    IF rule.calculation_type = "FLAT"
    THEN IF Truthy(rule.flat_total) THEN 4 * Val(rule.flat_total)
                                    ELSE 4 * base_price
    ELSE IF rule.calculation_type = "CAPPED"
    THEN LET rate == IF Truthy(rule.rate_per_km) THEN Val(rule.rate_per_km) ELSE 0
             calculated == 4 * base_price + rate * distance_km
             max_cap == IF Truthy(rule.max_price) THEN 4 * Val(rule.max_price)
                                                  ELSE calculated
         IN  IF calculated <= max_cap THEN calculated ELSE max_cap
    ELSE per_km_total(rule, base_price, distance_km, weight_kg)

surcharge_added(rule, is_oversize) ==
    IF is_oversize /\ rule.oversize_surcharge # 0
    THEN 4 * rule.oversize_surcharge
    ELSE 0

\* Whether every float operand that calculate_price reads is exact.
price_exact(rule, base_price, is_oversize) ==
    /\ Dyadic(base_price)
    /\ rule.rate_per_km # None => Dyadic(Val(rule.rate_per_km))
    /\ rule.max_price # None => Dyadic(Val(rule.max_price))
    /\ rule.flat_total # None => Dyadic(Val(rule.flat_total))
    /\ Dyadic(rule.oversize_surcharge)

calculate_price(rule, base_price, distance_km, weight_kg, is_oversize, up) ==
    LET calculated == calculated_total(rule, base_price, distance_km, weight_kg)
        total == calculated + surcharge_added(rule, is_oversize)
    IN  [calculated |-> calculated,
         total |-> total,
         price |-> Round(total, 4, price_exact(rule, base_price, is_oversize), up)]

(***************************************************************************)
(* The catalog reads of the two evaluations.                               *)
(***************************************************************************)
find_delivery_type_any(code) ==
    LET found == {t \in deliveryTypes : t.code = code}
    IN  IF found = {} THEN None ELSE Some(CHOOSE t \in found : TRUE)

\* DeliveryType.objects.filter(code=..., is_active=True).first(): code is
\* unique, so at most one row.
find_delivery_type(code) ==
    LET found == {t \in deliveryTypes : t.code = code /\ t.is_active}
    IN  IF found = {} THEN None ELSE Some(CHOOSE t \in found : TRUE)

active_rules(code) ==
    {r \in pricingRules : r.delivery_type = code /\ r.is_active}

RECURSIVE Perms(_)
Perms(S) ==
    IF S = {} THEN {<<>>}
    ELSE UNION {{<<x>> \o p : p \in Perms(S \ {x})} : x \in S}

order_by_priority_desc(rs) ==
    {s \in Perms(rs) : \A i \in 1 .. Len(s) - 1 : s[i].priority >= s[i + 1].priority}

\* .order_by('priority') replaces Meta.ordering: rows come back by priority
\* ascending, and the database is free to return rows of equal priority in
\* any order.  The set of row orders a read can return.
RECURSIVE order_by_priority(_)
order_by_priority(rs) ==
    IF rs = {} THEN {<<>>}
    ELSE UNION {{<<x>> \o s : s \in order_by_priority(rs \ {x})} :
                x \in {r \in rs : \A o \in rs : r.priority <= o.priority}}

first_match_or_first_row(rows, weight, distance, is_oversize) ==
    LET hits == {i \in 1 .. Len(rows) : matches(rows[i], weight, distance, is_oversize)}
    IN  IF hits = {} THEN (IF rows = <<>> THEN None ELSE Some(rows[1]))
        ELSE Some(rows[CHOOSE i \in hits : \A j \in hits : i <= j])

\* The for loop over the rows: the first rule whose matches() is true.
first_match(rows, weight, distance, is_oversize) ==
    LET hits == {i \in 1 .. Len(rows) : matches(rows[i], weight, distance, is_oversize)}
    IN  IF hits = {} THEN None
        ELSE Some(rows[CHOOSE i \in hits : \A j \in hits : i <= j])

(***************************************************************************)
(* The result of one evaluation, kept in `last` until it is returned.      *)
(***************************************************************************)
NoCall ==
    [op |-> "idle", delivery_speed |-> "", weight |-> 0, distance |-> 0,
     is_oversize |-> FALSE, outcome |-> "", rule |-> None,
     calculated |-> None, total |-> None, price |-> None,
     auto_calculated_amount |-> None]

Result(op, delivery_speed, weight, distance, is_oversize, outcome) ==
    [op |-> op, delivery_speed |-> delivery_speed, weight |-> weight,
     distance |-> distance, is_oversize |-> is_oversize, outcome |-> outcome,
     rule |-> None, calculated |-> None, total |-> None, price |-> None,
     auto_calculated_amount |-> None]

Priced(res, rule, p) ==
    [res EXCEPT !.rule = Some(rule), !.calculated = Some(p.calculated),
                !.total = Some(p.total), !.price = Some(p.price)]

(***************************************************************************)
(* calculate_quote_api.  rows is the order in which the database returns   *)
(* the active rules of the delivery type; outcome "invalid",               *)
(* "unknown_type" and "no_match" are the three success = false payloads,   *)
(* "priced" the success = true payload with its estimate.                  *)
(***************************************************************************)
calculate_quote_api_zero_distance(distance, weight, delivery_speed, is_oversize, rows, up) ==
    LET res(outcome) == Result("api", delivery_speed, weight, distance, is_oversize, outcome)
        delivery_type == find_delivery_type(delivery_speed)
        matched_rule == first_match(rows, weight, distance, is_oversize)
    IN  IF distance < 0 \/ weight <= 0 THEN res("invalid")
        ELSE IF delivery_type = None THEN res("unknown_type")
        ELSE IF matched_rule = None THEN res("no_match")
        ELSE Priced(res("priced"), Val(matched_rule),
                    calculate_price(Val(matched_rule), Val(delivery_type).base_price,
                                    distance, weight, is_oversize, up))

calculate_quote_api(distance, weight, delivery_speed, is_oversize, rows, up) ==
    LET res(outcome) == Result("api", delivery_speed, weight, distance, is_oversize, outcome)
        delivery_type == find_delivery_type(delivery_speed)
        matched_rule == first_match(rows, weight, distance, is_oversize)
    IN  IF distance <= 0 \/ weight <= 0 THEN res("invalid")
        ELSE IF delivery_type = None THEN res("unknown_type")
        ELSE IF matched_rule = None THEN res("no_match")
        ELSE Priced(res("priced"), Val(matched_rule),
                    calculate_price(Val(matched_rule), Val(delivery_type).base_price,
                                    distance, weight, is_oversize, up))

(***************************************************************************)
(* The legacy paths of Order.calculate_auto_price.                         *)
(***************************************************************************)
\* PricingTier.get_rate_for_distance (cents per km).
get_rate_for_distance(tier, distance_km) ==
    IF Truthy(tier.distance_threshold) /\ distance_km > Val(tier.distance_threshold)
    THEN IF Truthy(tier.price_per_km_long) THEN Val(tier.price_per_km_long)
                                           ELSE tier.price_per_km_short
    ELSE tier.price_per_km_short

\* The tiers the filter keeps, and the rows .first() can return under
\* Meta.ordering = ['order', 'weight_min'].
tiers_for(weight) ==
    {t \in pricingTiers :
        /\ t.is_active
        /\ t.weight_min <= weight
        /\ (t.weight_max = None \/ Val(t.weight_max) >= weight)}

first_tier(weight) ==
    LET kept == tiers_for(weight)
        before(a, b) == a.order < b.order
                        \/ (a.order = b.order /\ a.weight_min < b.weight_min)
    IN  IF kept = {} THEN {None}
        ELSE {Some(t) : t \in {a \in kept : \A b \in kept : ~before(b, a)}}

\* type_multipliers, in tenths.
type_multipliers(parcel_type) ==
    CASE parcel_type = "FRAGILE" -> 15
      [] parcel_type = "ELECTRONICS" -> 13
      [] parcel_type = "GENERAL" -> 10
      [] parcel_type = "DOCUMENTS" -> 8
      [] parcel_type = "FOOD" -> 12
      [] parcel_type = "GIFT" -> 11
      [] parcel_type = "FOAM" -> 10
      [] parcel_type = "CLOTHING" -> 9
      [] parcel_type = "BOOKS" -> 9
      [] OTHER -> 10

\* Order._calculate_legacy_price: None, or the price in cents.  The total
\* is in thousandths of a cent.
calculate_legacy_price(distance, weight, parcel_type, up) ==
    IF pricingConfig = None THEN None
    ELSE LET config == Val(pricingConfig)
             multiplier == type_multipliers(parcel_type)
             total == (100 * config.base_price + 25 * distance * config.price_per_km
                       + weight * config.price_per_kg) * multiplier
             exact == /\ Dyadic(config.base_price) /\ Dyadic(config.price_per_km)
                      /\ Dyadic(config.price_per_kg) /\ Dyadic(weight)
                      /\ multiplier % 5 = 0
         IN  Some(Round(total, 1000, exact, up))

\* self.delivery_speed or 'SAME_DAY'
effective_speed(delivery_speed) ==
    IF delivery_speed = "" THEN "SAME_DAY" ELSE delivery_speed

(***************************************************************************)
(* Order.calculate_auto_price.  rows and tier are what the two reads       *)
(* return.  Outcome "missing" is the early return None, "priced" a rule    *)
(* price, "tier" the legacy tier price, "legacy" the legacy configuration  *)
(* price and "none" the final None.                                        *)
(***************************************************************************)
calculate_auto_price(distance_km, parcel_weight, delivery_speed, is_oversize, parcel_type, rows, tier, up) ==
    LET speed == effective_speed(delivery_speed)
        res(outcome) == Result("auto", delivery_speed, parcel_weight, distance_km,
                               is_oversize, outcome)
        delivery_type == find_delivery_type(speed)
        matched_rule == IF delivery_type = None THEN None
                        ELSE first_match(rows, parcel_weight, distance_km, is_oversize)
        legacy == calculate_legacy_price(distance_km, parcel_weight, parcel_type, up)
    IN  IF distance_km = 0 \/ parcel_weight = 0 THEN res("missing")
        ELSE IF matched_rule # None
        THEN Priced(res("priced"), Val(matched_rule),
                    calculate_price(Val(matched_rule), Val(delivery_type).base_price,
                                    distance_km, parcel_weight, is_oversize, up))
        ELSE IF tier # None
        THEN [res("tier") EXCEPT
                 !.price = Some(Round(distance_km * get_rate_for_distance(Val(tier), distance_km),
                                      4,
                                      Dyadic(get_rate_for_distance(Val(tier), distance_km)),
                                      up))]
        ELSE IF legacy # None THEN [res("legacy") EXCEPT !.price = legacy]
        ELSE res("none")

\* The caller of calculate_auto_price (create_order_view, fix_order_prices):
\* `if auto_price: order.auto_calculated_amount = auto_price`.
store_auto_price(res) ==
    [res EXCEPT !.auto_calculated_amount =
        IF res.price # None /\ Val(res.price) # 0 THEN res.price ELSE None]

(***************************************************************************)
(* Actions.  A request is evaluated against the catalog as it stands and   *)
(* its result is held in `last` until Return hands it back.  Requests      *)
(* carry numeric parameters (a parameter float() cannot parse ends in the  *)
(* except branch of the view and is not modelled); within these values no  *)
(* statement of either evaluation raises.  While the result of a quote is  *)
(* held, the same request can be sent again (QuoteApiAgain) and an order   *)
(* with the same inputs can be priced (AutoPriceOfQuote).                  *)
(***************************************************************************)
QuoteApi ==
    /\ last.op = "idle"
    /\ \E distance \in Distances, weight \in Weights, delivery_speed \in Codes,
          is_oversize \in BOOLEAN, up \in BOOLEAN :
          \E rows \in order_by_priority(active_rules(delivery_speed)) :
             last' = calculate_quote_api(distance, weight, delivery_speed,
                                         is_oversize, rows, up)
    /\ UNCHANGED <<deliveryTypes, pricingRules, pricingTiers, pricingConfig, setup>>
    /\ UNCHANGED orderVars

AutoPrice ==
    /\ last.op = "idle"
    /\ \E distance_km \in Distances, parcel_weight \in Weights,
          delivery_speed \in Codes \cup {""}, is_oversize \in BOOLEAN,
          parcel_type \in ParcelTypes, up \in BOOLEAN :
          \E rows \in order_by_priority(active_rules(effective_speed(delivery_speed))),
             tier \in first_tier(parcel_weight) :
             last' = store_auto_price(
                        calculate_auto_price(distance_km, parcel_weight, delivery_speed,
                                             is_oversize, parcel_type, rows, tier, up))
    /\ UNCHANGED <<deliveryTypes, pricingRules, pricingTiers, pricingConfig, setup>>
    /\ UNCHANGED orderVars

QuoteApiAgain ==
    /\ last.op = "api"
    /\ \E up \in BOOLEAN :
          \E rows \in order_by_priority(active_rules(last.delivery_speed)) :
             last' = calculate_quote_api(last.distance, last.weight, last.delivery_speed,
                                         last.is_oversize, rows, up)
    /\ UNCHANGED <<deliveryTypes, pricingRules, pricingTiers, pricingConfig, setup>>
    /\ UNCHANGED orderVars

AutoPriceOfQuote ==
    /\ last.op = "api"
    /\ \E parcel_type \in ParcelTypes, up \in BOOLEAN :
          \E rows \in order_by_priority(active_rules(effective_speed(last.delivery_speed))),
             tier \in first_tier(last.weight) :
             last' = store_auto_price(
                        calculate_auto_price(last.distance, last.weight,
                                             last.delivery_speed, last.is_oversize,
                                             parcel_type, rows, tier, up))
    /\ UNCHANGED <<deliveryTypes, pricingRules, pricingTiers, pricingConfig, setup>>
    /\ UNCHANGED orderVars

Return ==
    /\ last.op # "idle"
    /\ last' = NoCall
    /\ UNCHANGED <<deliveryTypes, pricingRules, pricingTiers, pricingConfig, setup>>
    /\ UNCHANGED orderVars

Next == QuoteApi \/ AutoPrice \/ QuoteApiAgain \/ AutoPriceOfQuote \/ Return

(***************************************************************************)
(* Orders.  An order_id "ORD-<date>-<n>" is the tuple <<"ORD", date, n>>;  *)
(* dates are day numbers.  Order.save generates the order_id of a new      *)
(* order in three steps that each read the clock or the table: date_str    *)
(* (SaveBegin), the query over today's orders inside transaction.atomic    *)
(* (SaveCompute) and the INSERT of super().save() (SaveInsert), where      *)
(* auto_now_add sets created_at and the unique index on order_id is        *)
(* enforced.  transaction.atomic takes no lock, so the steps of two saves  *)
(* interleave freely.                                                      *)
(***************************************************************************)
\* The request handlers that can be inside Order.save at the same time.
Savers == 1 .. MaxSavers

\* f"ORD-{date_str}-{next_number}"
format_order_id(date_str, next_number) == <<"ORD", date_str, next_number>>

\* order_id__startswith = f"ORD-{date_str}-"
startswith_prefix(order_id, date_str) == SubSeq(order_id, 1, 2) = <<"ORD", date_str>>

\* int(oid.split('-')[-1])
order_number(order_id) == order_id[Len(order_id)]

\* A handler that is not inside Order.save; result is how its last save ended.
NotSaving == [pc |-> "idle", date_str |-> 0, order_id |-> <<>>, result |-> ""]

\* A new Order row with the field defaults of the model class.
NewOrder(order_id, created_at) ==
    [order_id |-> order_id, created_at |-> created_at, status |-> "UNDER_REVIEW",
     courier_amount |-> None, accepted_at |-> None, is_paid |-> FALSE,
     delivery_proof_image |-> FALSE]

\* The order_ids the query of Order.save returns.
today_orders(date_str, today_start) ==
    {o.order_id : o \in {x \in orders : /\ x.created_at = today_start
                                        /\ startswith_prefix(x.order_id, date_str)}}

Max(S) == CHOOSE m \in S : \A x \in S : x <= m

next_number(date_str, today_start) ==
    LET order_numbers == {order_number(oid) : oid \in today_orders(date_str, today_start)}
    IN  IF order_numbers # {} THEN Max(order_numbers) + 1 ELSE 1

\* date_str = timezone.now().strftime('%Y%m%d')
SaveBegin(p) ==
    /\ saving[p].pc = "idle"
    /\ Cardinality(orders) < MaxOrders
    /\ saving' = [saving EXCEPT ![p] = [pc |-> "dated", date_str |-> today,
                                        order_id |-> <<>>, result |-> ""]]
    /\ UNCHANGED <<orders, payments, gateway, today>>
    /\ UNCHANGED pricingVars

\* The body of `with transaction.atomic()`: today_start is read from the
\* clock again, the day's order_ids are read and the new order_id is built.
SaveCompute(p) ==
    /\ saving[p].pc = "dated"
    /\ next_number(saving[p].date_str, today) <= MaxNumber
    /\ saving' = [saving EXCEPT
                    ![p].pc = "computed",
                    ![p].order_id = format_order_id(saving[p].date_str,
                                       next_number(saving[p].date_str, today))]
    /\ UNCHANGED <<orders, payments, gateway, today>>
    /\ UNCHANGED pricingVars

\* super().save(): the INSERT.  A second row with the same order_id violates
\* the unique index and the save raises IntegrityError.
SaveInsert(p) ==
    /\ saving[p].pc = "computed"
    /\ IF \E o \in orders : o.order_id = saving[p].order_id
       THEN /\ saving' = [saving EXCEPT ![p].pc = "idle",
                                        ![p].result = "IntegrityError"]
            /\ UNCHANGED orders
       ELSE /\ saving' = [saving EXCEPT ![p].pc = "idle", ![p].result = "stored"]
            /\ orders' = orders \cup {NewOrder(saving[p].order_id, today)}
    /\ UNCHANGED <<payments, gateway, today>>
    /\ UNCHANGED pricingVars

\* An order is deleted (the delete action of OrderAdmin).
DeleteOrder ==
    /\ \E o \in orders : orders' = orders \ {o}
    /\ UNCHANGED <<payments, gateway, today, saving>>
    /\ UNCHANGED pricingVars

\* Midnight: the server clock moves to the next day.
Tick ==
    /\ today < MaxDay
    /\ today' = today + 1
    /\ UNCHANGED <<orders, payments, gateway, saving>>
    /\ UNCHANGED pricingVars

\* Orders are created one after another: one handler saves, the next save
\* begins when the previous one has returned.
NextSequential ==
    \/ SaveBegin(1)
    \/ SaveCompute(1)
    \/ SaveInsert(1)
    \/ (saving[1].pc = "idle" /\ DeleteOrder)
    \/ Tick

\* Orders are created by concurrent requests.
NextConcurrent ==
    \/ \E p \in Savers : SaveBegin(p)
    \/ \E p \in Savers : SaveCompute(p)
    \/ \E p \in Savers : SaveInsert(p)
    \/ DeleteOrder
    \/ Tick


(***************************************************************************)
(* admin_order_detail_view: the four POST actions of a staff user on a     *)
(* stored order.  The view checks that a POST value is not empty and       *)
(* nothing else; order.save() runs no validation, so a status outside      *)
(* STATUS_CHOICES or out of sequence is stored as sent.  courier_amount     *)
(* arrives as text and is stored in cents; picked_at and delivered_at are  *)
(* not modelled.                                                           *)
(***************************************************************************)
Statuses == {"UNDER_REVIEW", "ACCEPTED", "REJECTED", "PICKED", "ON_THE_WAY", "DELIVERED"}

\* The courier_amount values of the accept form: left empty, zero, and an
\* amount; DecimalOf is the value the DecimalField stores for the text.
AmountTexts == {"", "0", "25.00"}

DecimalOf(text) == IF text = "25.00" THEN 2500 ELSE 0

\* Order.can_be_paid
can_be_paid(order) ==
    order.status = "ACCEPTED" /\ Truthy(order.courier_amount) /\ ~order.is_paid

\* The table with `order` written back by order.save().
SaveOrder(order, updated) == (orders \ {order}) \cup {updated}

\* action = accept
AdminAccept ==
    /\ \E order \in orders, courier_amount \in AmountTexts :
          IF courier_amount # ""
          THEN orders' = SaveOrder(order,
                            [order EXCEPT !.status = "ACCEPTED",
                                          !.courier_amount = Some(DecimalOf(courier_amount)),
                                          !.accepted_at = Some(today)])
          ELSE UNCHANGED orders
    /\ UNCHANGED <<payments, gateway, today, saving>>
    /\ UNCHANGED pricingVars

\* action = reject
AdminReject ==
    /\ \E order \in orders :
          orders' = SaveOrder(order, [order EXCEPT !.status = "REJECTED"])
    /\ UNCHANGED <<payments, gateway, today, saving>>
    /\ UNCHANGED pricingVars

\* action = update_status
AdminUpdateStatus ==
    /\ \E order \in orders, new_status \in Statuses \cup {""} :
          IF new_status # ""
          THEN orders' = SaveOrder(order, [order EXCEPT !.status = new_status])
          ELSE UNCHANGED orders
    /\ UNCHANGED <<payments, gateway, today, saving>>
    /\ UNCHANGED pricingVars

\* action = upload_delivery_proof
AdminUploadDeliveryProof ==
    /\ \E order \in orders, delivery_proof \in BOOLEAN :
          IF delivery_proof
          THEN orders' = SaveOrder(order, [order EXCEPT !.delivery_proof_image = TRUE])
          ELSE UNCHANGED orders
    /\ UNCHANGED <<payments, gateway, today, saving>>
    /\ UNCHANGED pricingVars

NextAdminOrders ==
    \/ AdminAccept
    \/ AdminReject
    \/ AdminUpdateStatus
    \/ AdminUploadDeliveryProof
    \/ Tick

(***************************************************************************)
(* Payments.  `gateway` holds what Stripe and PayPal know: one object per  *)
(* PaymentIntent or PayPal payment, with the order it was created for and  *)
(* its state.  A Stripe intent ends "succeeded" or "failed"; a PayPal      *)
(* payment is "created", then "approved" by the payer, then "executed".    *)
(* The views are the customer's requests; the intent outcomes, the payer's *)
(* approval and the webhook deliveries are the gateways' steps.            *)
(***************************************************************************)
\* Payment.objects.create(...) of the two payment views.
NewPayment(order, payment_method, gateway_id) ==
    [transaction_id |-> Cardinality(payments) + 1, order |-> order.order_id,
     payment_method |-> payment_method, status |-> "PROCESSING",
     stripe_payment_intent_id |-> IF payment_method = "STRIPE" THEN Some(gateway_id)
                                                               ELSE None,
     paypal_order_id |-> IF payment_method = "PAYPAL" THEN Some(gateway_id) ELSE None]

\* The object the gateway creates for a payment of the order.
NewGatewayObject(order, payment_method) ==
    [id |-> Cardinality(gateway) + 1, payment_method |-> payment_method,
     order |-> order.order_id,
     state |-> IF payment_method = "STRIPE" THEN "requires_payment" ELSE "created"]

\* .first() under Meta.ordering = ['-created_at']: the newest payment.
first_payment(rows) ==
    IF rows = {} THEN None
    ELSE Some(CHOOSE x \in rows : \A y \in rows : y.transaction_id <= x.transaction_id)

\* payment.status = 'COMPLETED'; payment.save()
CompletePayment(payment) ==
    (payments \ {payment}) \cup {[payment EXCEPT !.status = "COMPLETED"]}

\* order.is_paid = True; order.save()
MarkPaid(order) == SaveOrder(order, [order EXCEPT !.is_paid = TRUE])

\* stripe_payment_view (POST)
StripePaymentView ==
    /\ Cardinality(payments) < MaxPayments
    /\ \E order \in orders :
          /\ can_be_paid(order)
          /\ gateway' = gateway \cup {NewGatewayObject(order, "STRIPE")}
          /\ payments' = payments
                \cup {NewPayment(order, "STRIPE", NewGatewayObject(order, "STRIPE").id)}
    /\ UNCHANGED <<orders, today, saving>>
    /\ UNCHANGED pricingVars

\* Stripe: the card payment of an intent succeeds or fails.
StripeIntentOutcome ==
    /\ \E g \in gateway, state \in {"succeeded", "failed"} :
          /\ g.payment_method = "STRIPE"
          /\ g.state = "requires_payment"
          /\ gateway' = (gateway \ {g}) \cup {[g EXCEPT !.state = state]}
    /\ UNCHANGED <<orders, payments, today, saving>>
    /\ UNCHANGED pricingVars

\* stripe_webhook, called by Stripe (the signature is verified) with the
\* event of an intent's outcome.
StripeWebhook ==
    /\ \E g \in gateway :
          /\ g.payment_method = "STRIPE"
          /\ g.state \in {"succeeded", "failed"}
          /\ LET payment == CHOOSE x \in payments : x.stripe_payment_intent_id = Some(g.id)
             IN  IF g.state = "succeeded"
                 THEN /\ payments' = CompletePayment(payment)
                      /\ orders' = MarkPaid(CHOOSE o \in orders : o.order_id = payment.order)
                 ELSE /\ payments' = (payments \ {payment})
                                        \cup {[payment EXCEPT !.status = "FAILED"]}
                      /\ UNCHANGED orders
    /\ UNCHANGED <<gateway, today, saving>>
    /\ UNCHANGED pricingVars

\* stripe_payment_success (the customer's GET of the success URL)
StripePaymentSuccess ==
    /\ \E order \in orders :
          LET payment == first_payment({x \in payments : /\ x.order = order.order_id
                                                         /\ x.payment_method = "STRIPE"})
          IN  IF payment # None
              THEN /\ payments' = CompletePayment(Val(payment))
                   /\ orders' = MarkPaid(order)
              ELSE UNCHANGED <<orders, payments>>
    /\ UNCHANGED <<gateway, today, saving>>
    /\ UNCHANGED pricingVars

\* paypal_payment_view (POST)
PaypalPaymentView ==
    /\ Cardinality(payments) < MaxPayments
    /\ \E order \in orders :
          /\ can_be_paid(order)
          /\ gateway' = gateway \cup {NewGatewayObject(order, "PAYPAL")}
          /\ payments' = payments
                \cup {NewPayment(order, "PAYPAL", NewGatewayObject(order, "PAYPAL").id)}
    /\ UNCHANGED <<orders, today, saving>>
    /\ UNCHANGED pricingVars

\* PayPal: the payer approves the payment on PayPal's page.
PaypalApprove ==
    /\ \E g \in gateway :
          /\ g.payment_method = "PAYPAL"
          /\ g.state = "created"
          /\ gateway' = (gateway \ {g}) \cup {[g EXCEPT !.state = "approved"]}
    /\ UNCHANGED <<orders, payments, today, saving>>
    /\ UNCHANGED pricingVars

\* paypal_execute_view with the paymentId and PayerID of the query string.
\* Payment.find raises for an unknown id and execute fails for a payment
\* that is not approved; both leave the tables as they are.
PaypalExecuteView ==
    /\ \E order \in orders, payment_id \in 0 .. Cardinality(gateway) :
          LET found == {g \in gateway : g.id = payment_id /\ g.payment_method = "PAYPAL"}
              payment_record == first_payment({x \in payments :
                                                  /\ x.order = order.order_id
                                                  /\ x.paypal_order_id = Some(payment_id)})
          IN  IF found # {} /\ (CHOOSE g \in found : TRUE).state = "approved"
              THEN /\ gateway' = (gateway \ found)
                                    \cup {[g EXCEPT !.state = "executed"] : g \in found}
                   /\ payments' = IF payment_record # None
                                  THEN CompletePayment(Val(payment_record))
                                  ELSE payments
                   /\ orders' = MarkPaid(order)
              ELSE UNCHANGED <<orders, payments, gateway>>
    /\ UNCHANGED <<today, saving>>
    /\ UNCHANGED pricingVars

NextPayments ==
    \/ StripePaymentView
    \/ StripeIntentOutcome
    \/ StripeWebhook
    \/ StripePaymentSuccess
    \/ PaypalPaymentView
    \/ PaypalApprove
    \/ PaypalExecuteView

(***************************************************************************)
(* The catalogs the evaluations are checked against.  Every field value is *)
(* one the DecimalField / BooleanField / choices of the model accept.      *)
(***************************************************************************)
\* A PricingRule with the field defaults of the model class.
DefaultRule ==
    [delivery_type |-> "SAME_DAY", weight_min |-> 0, weight_max |-> None,
     is_oversize_rule |-> FALSE, distance_threshold |-> None,
     is_short_trip |-> None, calculation_type |-> "PER_KM",
     rate_per_km |-> None, max_price |-> None, flat_total |-> None,
     oversize_surcharge |-> 0, is_active |-> TRUE, priority |-> 0]

\* The two delivery types as setup_helpii_pricing creates them, EXPRESS_2HR
\* with the given base price.
TypesWith(express_base) ==
    {[code |-> "EXPRESS_2HR", base_price |-> express_base, is_active |-> TRUE],
     [code |-> "SAME_DAY", base_price |-> 1000, is_active |-> TRUE]}

\* The subsets of S with at most k elements.
RECURSIVE KSubsets(_, _)
KSubsets(S, k) ==
    IF k = 0 THEN {{}}
    ELSE LET P == KSubsets(S, k - 1)
         IN  P \cup {p \cup {x} : p \in P, x \in S}

\* Rules that differ in what decides the order of evaluation.
OrderRules ==
    {[DefaultRule EXCEPT !.delivery_type = t, !.priority = p, !.weight_min = w,
                         !.is_active = a] :
        t \in {"EXPRESS_2HR", "SAME_DAY"}, p \in {1, 2}, w \in {0, 1},
        a \in BOOLEAN}

\* Rules that differ in what matches() reads.
MatchRules ==
    {[DefaultRule EXCEPT !.delivery_type = t, !.is_oversize_rule = o,
                         !.weight_min = w, !.weight_max = x,
                         !.distance_threshold = d, !.is_short_trip = s,
                         !.priority = 10] :
        t \in {"EXPRESS_2HR", "SAME_DAY"}, o \in BOOLEAN, w \in {0, 1},
        x \in {None, Some(0), Some(1)}, d \in {None, Some(0), Some(1)},
        s \in {None, Some(TRUE), Some(FALSE)}}

\* The oversize-only flat rule setup_helpii_pricing puts ahead of the weight
\* rules of a type ("Same Day Oversize", priority 1, flat $70).
OversizeOverride(t) ==
    [DefaultRule EXCEPT !.delivery_type = t, !.is_oversize_rule = TRUE,
                        !.calculation_type = "FLAT", !.flat_total = Some(7000),
                        !.priority = 1]

\* Rules that differ in what calculate_price() reads.
PriceRules ==
    {[DefaultRule EXCEPT !.delivery_type = "EXPRESS_2HR", !.calculation_type = c,
                         !.rate_per_km = r, !.max_price = m, !.flat_total = f,
                         !.oversize_surcharge = s] :
        c \in {"PER_KM", "CAPPED", "FLAT"}, r \in {None, Some(0), Some(50)},
        m \in {None, Some(0), Some(1000)}, f \in {None, Some(0), Some(7000)},
        s \in {0, 5000, -500}}

\* Legacy tiers and the legacy configuration row (the field defaults).
TierRows ==
    {[weight_min |-> w, weight_max |-> None, distance_threshold |-> d,
      price_per_km_short |-> 500, price_per_km_long |-> l, is_active |-> a,
      order |-> 0] :
        w \in {0, 1}, d \in {None, Some(1)}, l \in {None, Some(300)},
        a \in BOOLEAN}

DefaultConfig ==
    [base_price |-> 1000, price_per_km |-> 150, price_per_kg |-> 200]

\* The two delivery types with the given is_active flags.
TypesActive(express_active, same_day_active) ==
    {[code |-> "EXPRESS_2HR", base_price |-> 3000, is_active |-> express_active],
     [code |-> "SAME_DAY", base_price |-> 1000, is_active |-> same_day_active]}

\* Rules that differ in whether they are read and in the parcels they take.
CatalogRules ==
    {[DefaultRule EXCEPT !.delivery_type = t, !.is_active = a,
                         !.is_oversize_rule = o] :
        t \in {"EXPRESS_2HR", "SAME_DAY"}, a \in BOOLEAN, o \in BOOLEAN}

(***************************************************************************)
(* The catalog setup_helpii_pricing creates.                               *)
(***************************************************************************)
SeededTypes ==
    {[code |-> "EXPRESS_2HR", base_price |-> 3000, is_active |-> TRUE],
     [code |-> "SAME_DAY", base_price |-> 1000, is_active |-> TRUE],
     [code |-> "OVERNIGHT", base_price |-> 1000, is_active |-> TRUE]}

ExpressStandard ==
    [DefaultRule EXCEPT !.delivery_type = "EXPRESS_2HR", !.weight_max = Some(2000),
                        !.rate_per_km = Some(500), !.priority = 10]

ExpressOverweight ==
    [DefaultRule EXCEPT !.delivery_type = "EXPRESS_2HR", !.weight_min = 2001,
                        !.rate_per_km = Some(500), !.oversize_surcharge = 5000,
                        !.priority = 5]

SameDayOversize ==
    [DefaultRule EXCEPT !.weight_max = Some(2000), !.is_oversize_rule = TRUE,
                        !.calculation_type = "FLAT", !.flat_total = Some(7000),
                        !.priority = 1]

SameDaySmallShortTrip ==
    [DefaultRule EXCEPT !.weight_max = Some(1000), !.distance_threshold = Some(40),
                        !.is_short_trip = Some(TRUE), !.rate_per_km = Some(300),
                        !.priority = 10]

SameDaySmallLongTrip ==
    [DefaultRule EXCEPT !.weight_max = Some(1000), !.distance_threshold = Some(40),
                        !.is_short_trip = Some(FALSE), !.rate_per_km = Some(200),
                        !.priority = 11]

SameDayMediumShortTrip ==
    [DefaultRule EXCEPT !.weight_min = 1001, !.weight_max = Some(2000),
                        !.distance_threshold = Some(40), !.is_short_trip = Some(TRUE),
                        !.calculation_type = "FLAT", !.flat_total = Some(6000),
                        !.priority = 20]

SameDayMediumLongTrip ==
    [DefaultRule EXCEPT !.weight_min = 1001, !.weight_max = Some(2000),
                        !.distance_threshold = Some(40), !.is_short_trip = Some(FALSE),
                        !.calculation_type = "FLAT", !.flat_total = Some(7000),
                        !.priority = 21]

SameDayHeavy ==
    [DefaultRule EXCEPT !.weight_min = 2001, !.calculation_type = "FLAT",
                        !.flat_total = Some(11000), !.priority = 30]

OvernightOversize ==
    [DefaultRule EXCEPT !.delivery_type = "OVERNIGHT", !.is_oversize_rule = TRUE,
                        !.calculation_type = "FLAT", !.flat_total = Some(7000),
                        !.priority = 1]

OvernightStandard ==
    [DefaultRule EXCEPT !.delivery_type = "OVERNIGHT", !.calculation_type = "FLAT",
                        !.flat_total = Some(6000), !.priority = 10]

SeededRules ==
    {ExpressStandard, ExpressOverweight, SameDayOversize, SameDaySmallShortTrip,
     SameDaySmallLongTrip, SameDayMediumShortTrip, SameDayMediumLongTrip,
     SameDayHeavy, OvernightOversize, OvernightStandard}

(***************************************************************************)
(* Writes to the catalog: the change forms of PricingRuleAdmin and the     *)
(* statements of the setup_helpii_pricing command.  The admin form runs    *)
(* the validation of the model's fields (types, choices, digits) and       *)
(* nothing else: PricingRule defines no clean() and no database            *)
(* constraint, PricingRuleAdmin no form.  The command runs outside any     *)
(* transaction, so each of its statements commits on its own.              *)
(***************************************************************************)
\* Rules that pass the field validation of the admin form.
AdminRuleForms ==
    {[DefaultRule EXCEPT !.weight_min = weight_min, !.weight_max = weight_max,
                         !.distance_threshold = distance_threshold,
                         !.is_short_trip = is_short_trip,
                         !.calculation_type = calculation_type,
                         !.rate_per_km = rate_per_km, !.flat_total = flat_total] :
        weight_min \in {0, MaxWeight}, weight_max \in {None, Some(1)},
        distance_threshold \in {None, Some(1)}, is_short_trip \in {None, Some(TRUE)},
        calculation_type \in {"PER_KM", "FLAT"}, rate_per_km \in {None, Some(500)},
        flat_total \in {None, Some(6000)}}

\* The add form of PricingRuleAdmin.
AdminCreateRule ==
    /\ Cardinality(pricingRules) < MaxRules
    /\ \E form \in AdminRuleForms : pricingRules' = pricingRules \cup {form}
    /\ UNCHANGED <<deliveryTypes, pricingTiers, pricingConfig, last, setup>>
    /\ UNCHANGED orderVars

\* The change form of PricingRuleAdmin.
AdminUpdateRule ==
    /\ \E obj \in pricingRules, form \in AdminRuleForms :
          pricingRules' = (pricingRules \ {obj}) \cup {form}
    /\ UNCHANGED <<deliveryTypes, pricingTiers, pricingConfig, last, setup>>
    /\ UNCHANGED orderVars

\* The delete view of PricingRuleAdmin.
AdminDeleteRule ==
    /\ \E obj \in pricingRules : pricingRules' = pricingRules \ {obj}
    /\ UNCHANGED <<deliveryTypes, pricingTiers, pricingConfig, last, setup>>
    /\ UNCHANGED orderVars

NextAdmin == AdminCreateRule \/ AdminUpdateRule \/ AdminDeleteRule

SeededType(code) == CHOOSE t \in SeededTypes : t.code = code

\* The statements of Command.handle after the initial delete, in order.
SetupStatements ==
    <<[stmt |-> "update_or_create", row |-> SeededType("EXPRESS_2HR")],
      [stmt |-> "create", row |-> ExpressStandard],
      [stmt |-> "create", row |-> ExpressOverweight],
      [stmt |-> "update_or_create", row |-> SeededType("SAME_DAY")],
      [stmt |-> "create", row |-> SameDayOversize],
      [stmt |-> "create", row |-> SameDaySmallShortTrip],
      [stmt |-> "create", row |-> SameDaySmallLongTrip],
      [stmt |-> "create", row |-> SameDayMediumShortTrip],
      [stmt |-> "create", row |-> SameDayMediumLongTrip],
      [stmt |-> "create", row |-> SameDayHeavy],
      [stmt |-> "update_or_create", row |-> SeededType("OVERNIGHT")],
      [stmt |-> "create", row |-> OvernightOversize],
      [stmt |-> "create", row |-> OvernightStandard]>>

\* The position after statement number `setup`; 0 when the command is done.
SetupAdvance == IF setup = Len(SetupStatements) THEN 0 ELSE setup + 1

\* PricingRule.objects.all().delete(), the first statement of the command.
SetupDeleteRules ==
    /\ setup = 0
    /\ pricingRules' = {}
    /\ setup' = 1
    /\ UNCHANGED <<deliveryTypes, pricingTiers, pricingConfig, last>>
    /\ UNCHANGED orderVars

\* DeliveryType.objects.update_or_create(code = ..., defaults = ...)
SetupUpdateOrCreateType ==
    /\ setup > 0
    /\ SetupStatements[setup].stmt = "update_or_create"
    /\ deliveryTypes' = {t \in deliveryTypes : t.code # SetupStatements[setup].row.code}
                           \cup {SetupStatements[setup].row}
    /\ setup' = SetupAdvance
    /\ UNCHANGED <<pricingRules, pricingTiers, pricingConfig, last>>
    /\ UNCHANGED orderVars

\* PricingRule.objects.create(...)
SetupCreateRule ==
    /\ setup > 0
    /\ SetupStatements[setup].stmt = "create"
    /\ pricingRules' = pricingRules \cup {SetupStatements[setup].row}
    /\ setup' = SetupAdvance
    /\ UNCHANGED <<deliveryTypes, pricingTiers, pricingConfig, last>>
    /\ UNCHANGED orderVars

\* Quotes served while the command runs.
NextSetup ==
    \/ QuoteApi
    \/ Return
    \/ SetupDeleteRules
    \/ SetupUpdateOrCreateType
    \/ SetupCreateRule

\* No order has been placed and no Order.save is running.
NoOrders ==
    /\ orders = {}
    /\ payments = {}
    /\ gateway = {}
    /\ today = 0
    /\ saving = [p \in Savers |-> NotSaving]

InitOrder ==
    /\ deliveryTypes = TypesWith(3000)
    /\ pricingRules \in KSubsets(OrderRules, MaxRules)
    /\ pricingTiers = {}
    /\ pricingConfig = None
    /\ last = NoCall
    /\ setup = 0
    /\ NoOrders

InitMatch ==
    /\ deliveryTypes = TypesWith(3000)
    /\ pricingRules \in KSubsets(MatchRules, 1)
                         \cup {{r, OversizeOverride(r.delivery_type)} : r \in MatchRules}
    /\ pricingTiers = {}
    /\ pricingConfig = None
    /\ last = NoCall
    /\ setup = 0
    /\ NoOrders

InitPrice ==
    /\ deliveryTypes \in {TypesWith(b) : b \in {0, 1000}}
    /\ pricingRules \in KSubsets(PriceRules, 1)
    /\ pricingTiers = {}
    /\ pricingConfig = None
    /\ last = NoCall
    /\ setup = 0
    /\ NoOrders

InitLegacy ==
    /\ deliveryTypes = TypesWith(3000)
    /\ pricingRules \in KSubsets({r \in OrderRules : r.priority = 1 /\ r.is_active}, 1)
    /\ pricingTiers \in KSubsets(TierRows, MaxTiers)
    /\ pricingConfig \in {None, Some(DefaultConfig)}
    /\ last = NoCall
    /\ setup = 0
    /\ NoOrders

InitCatalog ==
    /\ deliveryTypes \in {TypesActive(e, d) : e \in BOOLEAN, d \in BOOLEAN}
    /\ pricingRules \in KSubsets(CatalogRules, MaxRules)
    /\ pricingTiers \in KSubsets({t \in TierRows : t.is_active /\ t.weight_min = 0
                                                  /\ t.distance_threshold = None
                                                  /\ t.price_per_km_long = None}, MaxTiers)
    /\ pricingConfig \in {None, Some(DefaultConfig)}
    /\ last = NoCall
    /\ setup = 0
    /\ NoOrders

InitSeeded ==
    /\ deliveryTypes = SeededTypes
    /\ pricingRules = SeededRules
    /\ pricingTiers = {}
    /\ pricingConfig = None
    /\ last = NoCall
    /\ setup = 0
    /\ NoOrders

\* Rule ordering and first match (catalogs of up to MaxRules rules).
SpecOrder == InitOrder /\ [][Next]_vars

\* PricingRule.matches (one rule, every combination of its gates, alone or
\* behind an oversize-only rule).
SpecMatch == InitMatch /\ [][Next]_vars

\* PricingRule.calculate_price (one rule, every combination of its recipe).
SpecPrice == InitPrice /\ [][Next]_vars

\* The legacy paths of calculate_auto_price.
SpecLegacy == InitLegacy /\ [][Next]_vars

\* Active and inactive types and rules, with and without legacy data.
SpecCatalog == InitCatalog /\ [][Next]_vars

\* The seeded catalog.
SpecSeeded == InitSeeded /\ [][Next]_vars

\* One SAME_DAY rule with zero or a positive value in flat_total and in
\* weight_max.
ZeroRules ==
    {[DefaultRule EXCEPT !.calculation_type = "FLAT", !.flat_total = f,
                         !.weight_max = m, !.oversize_surcharge = s] :
        f \in {Some(0), Some(7000)}, m \in {None, Some(0), Some(1)}, s \in {0, 5000}}

InitZero ==
    /\ deliveryTypes = TypesWith(3000)
    /\ pricingRules \in KSubsets(ZeroRules, 1)
    /\ pricingTiers = {}
    /\ pricingConfig = None
    /\ last = NoCall
    /\ setup = 0
    /\ NoOrders

\* Rule fields that hold zero.
SpecZero == InitZero /\ [][Next]_vars

\* The admin forms of PricingRule, from an empty catalog.
InitAdmin ==
    /\ deliveryTypes = TypesWith(3000)
    /\ pricingRules = {}
    /\ pricingTiers = {}
    /\ pricingConfig = None
    /\ last = NoCall
    /\ setup = 0
    /\ NoOrders

SpecAdmin == InitAdmin /\ [][NextAdmin]_vars

\* setup_helpii_pricing run again on the catalog it seeded, while quotes
\* are served.
SpecSetup == InitSeeded /\ [][NextSetup]_vars

\* Up to two orders as Order.save stored them on day 0, on the seeded
\* catalog.
InitAdminOrders ==
    /\ deliveryTypes = SeededTypes
    /\ pricingRules = SeededRules
    /\ pricingTiers = {}
    /\ pricingConfig = None
    /\ last = NoCall
    /\ setup = 0
    /\ orders \in (SUBSET {NewOrder(format_order_id(0, n), 0) : n \in 1 .. 2}) \ {{}}
    /\ payments = {}
    /\ gateway = {}
    /\ today = 0
    /\ saving = [p \in Savers |-> NotSaving]

\* The staff actions on stored orders.
SpecAdminOrders == InitAdminOrders /\ [][NextAdminOrders]_vars

\* Two orders that admin_order_detail_view accepted at 25.00, unpaid.
InitPayments ==
    /\ deliveryTypes = SeededTypes
    /\ pricingRules = SeededRules
    /\ pricingTiers = {}
    /\ pricingConfig = None
    /\ last = NoCall
    /\ setup = 0
    /\ orders = {[NewOrder(format_order_id(0, n), 0) EXCEPT
                     !.status = "ACCEPTED", !.courier_amount = Some(2500),
                     !.accepted_at = Some(0)] : n \in 1 .. 2}
    /\ payments = {}
    /\ gateway = {}
    /\ today = 0
    /\ saving = [p \in Savers |-> NotSaving]

\* The payment views and the gateways.
SpecPayments == InitPayments /\ [][NextPayments]_vars

\* Order.save on the seeded catalog, one save at a time.
SpecOrdersSequential == InitSeeded /\ [][NextSequential]_vars

\* Order.save on the seeded catalog, called by concurrent requests.
SpecOrdersConcurrent == InitSeeded /\ [][NextConcurrent]_vars

Spec == SpecOrder

(***************************************************************************)
(* Properties.  They read the result held in `last` against the catalog it *)
(* was evaluated on (under the specifications above SpecAdmin no action    *)
(* changes the catalog while it is held).                                  *)
(***************************************************************************)
\* The evaluation got as far as the loop over the rules of an active type.
ReachedRules ==
    /\ last.op \in {"api", "auto"}
    /\ last.outcome \notin {"invalid", "unknown_type", "missing"}
    /\ find_delivery_type(effective_speed(last.delivery_speed)) # None

\* The active rules the loop ran over.
RulesRead == active_rules(effective_speed(last.delivery_speed))

\* matches() on the inputs of the evaluation.
MatchesLast(r) == matches(r, last.weight, last.distance, last.is_oversize)

BaseOfLast == Val(find_delivery_type(effective_speed(last.delivery_speed))).base_price

\* C1: the rule a quote uses (in calculate_quote_api and in
\* Order.calculate_auto_price alike) is an active rule of the requested type
\* that matches the input, no active rule of that type with a strictly lower
\* priority number matches it, and a rule is used whenever one matches.
C1_FirstMatchByPriority ==
    ReachedRules =>
        /\ last.rule # None =>
              /\ Val(last.rule) \in RulesRead
              /\ MatchesLast(Val(last.rule))
              /\ \A r \in RulesRead :
                    r.priority < Val(last.rule).priority => ~MatchesLast(r)
        /\ last.rule = None => \A r \in RulesRead : ~MatchesLast(r)

\* C1 witness: a quote priced by the lower-priority-number rule of two
\* matching active rules.
C1_Witness ==
    /\ last.op = "api"
    /\ last.outcome = "priced"
    /\ \E r \in RulesRead :
          /\ r.priority > Val(last.rule).priority
          /\ MatchesLast(r)

\* C2: when two active rules of the type share a priority and both match,
\* the quote uses the one with the smaller weight_min.
C2_TieBreakByWeightMin ==
    (ReachedRules /\ last.rule # None) =>
        \A r \in RulesRead :
            (r.priority = Val(last.rule).priority /\ MatchesLast(r))
                => Val(last.rule).weight_min <= r.weight_min

\* C3: an oversize-only rule never prices a parcel that is not oversize; a
\* rule that is not oversize-only never prices an oversize parcel unless its
\* type is EXPRESS_2HR, where the flag does not block the match; and for the
\* other types an oversize parcel with no oversize-only rule ends in no match.
C3_OversizeGate ==
    ReachedRules =>
        /\ last.rule # None =>
              /\ Val(last.rule).is_oversize_rule => last.is_oversize
              /\ (~Val(last.rule).is_oversize_rule /\ last.is_oversize)
                    => Val(last.rule).delivery_type = "EXPRESS_2HR"
        /\ \A r \in RulesRead :
              (/\ r.delivery_type = "EXPRESS_2HR"
               /\ ~r.is_oversize_rule
               /\ weight_gate(r, last.weight)
               /\ distance_gate(r, last.distance))
                 => last.rule # None
        /\ (/\ last.is_oversize
            /\ effective_speed(last.delivery_speed) # "EXPRESS_2HR"
            /\ \A r \in RulesRead : ~r.is_oversize_rule)
              => /\ last.rule = None
                 /\ last.op = "api" => last.outcome = "no_match"

\* C3 witness: an oversize SAME_DAY parcel whose only rule is a weight rule
\* that its weight and distance satisfy, refused by the quote API.
C3_Witness ==
    /\ last.op = "api"
    /\ last.outcome = "no_match"
    /\ last.is_oversize
    /\ last.delivery_speed = "SAME_DAY"
    /\ \E r \in RulesRead :
          /\ ~r.is_oversize_rule
          /\ weight_gate(r, last.weight)
          /\ distance_gate(r, last.distance)

\* The weight range of a rule as the claim reads it: weight_max present
\* means not null.
InWeightRange(r, w) ==
    /\ w >= r.weight_min
    /\ r.weight_max # None => w <= Val(r.weight_max)

\* C4: the weight gate is inclusive at both ends: the rule used has
\* weight_min <= weight and, when weight_max is present, weight <= weight_max;
\* and a lone rule whose other gates pass is used for every weight in range.
C4_WeightGateInclusive ==
    ReachedRules =>
        \A r \in RulesRead :
            /\ last.rule = Some(r) => InWeightRange(r, last.weight)
            /\ (/\ RulesRead = {r}
                /\ oversize_gate(r, last.is_oversize)
                /\ distance_gate(r, last.distance)
                /\ InWeightRange(r, last.weight))
                  => last.rule = Some(r)

\* The rule with the opposite is_short_trip and the same threshold.
Twin(r) == [r EXCEPT !.is_short_trip = Some(~Val(r.is_short_trip))]

\* C5: a short-trip rule is used only for distance <= threshold and a
\* long-trip rule only for distance > threshold; of a short-trip and a
\* long-trip rule with the same threshold every distance passes the gate of
\* exactly one; a rule with is_short_trip null is not gated by distance.
C5_DistanceGate ==
    ReachedRules =>
        \A r \in RulesRead :
            /\ (/\ last.rule = Some(r)
                /\ r.is_short_trip # None
                /\ r.distance_threshold # None)
                  => IF Val(r.is_short_trip)
                     THEN last.distance <= Val(r.distance_threshold)
                     ELSE last.distance > Val(r.distance_threshold)
            /\ (r.is_short_trip # None /\ r.distance_threshold # None)
                  => distance_gate(r, last.distance)
                        # distance_gate(Twin(r), last.distance)
            /\ r.is_short_trip = None => distance_gate(r, last.distance)

\* A quote priced by a rule of the given calculation_type.
PricedBy(calculation_type) ==
    /\ ReachedRules
    /\ last.rule # None
    /\ Val(last.rule).calculation_type = calculation_type

\* C6: for a matched PER_KM rule the price before surcharge and rounding is
\* base_price + rate_per_km x distance, whatever the weight (quarter cents).
C6_PerKm ==
    (PricedBy("PER_KM") /\ Val(last.rule).rate_per_km # None) =>
        Val(last.calculated) =
            4 * BaseOfLast + Val(Val(last.rule).rate_per_km) * last.distance

\* C6 witness: a PER_KM quote with a non-zero rate, distance and base price,
\* for the heaviest parcel.
C6_Witness ==
    /\ PricedBy("PER_KM")
    /\ Val(last.rule).rate_per_km = Some(50)
    /\ last.distance > 0
    /\ last.weight = MaxWeight
    /\ BaseOfLast > 0

\* C7: for a matched CAPPED rule the price before surcharge and rounding is
\* min(base_price + rate_per_km x distance, max_price), never above a
\* present max_price, and the PER_KM amount when max_price is absent.
C7_Capped ==
    (PricedBy("CAPPED") /\ Val(last.rule).rate_per_km # None) =>
        LET uncapped == 4 * BaseOfLast
                        + Val(Val(last.rule).rate_per_km) * last.distance
            max_price == Val(last.rule).max_price
        IN  IF max_price = None
            THEN Val(last.calculated) = uncapped
            ELSE /\ Val(last.calculated) <= 4 * Val(max_price)
                 /\ Val(last.calculated) =
                       IF uncapped <= 4 * Val(max_price) THEN uncapped
                                                         ELSE 4 * Val(max_price)

\* C8: for a matched FLAT rule the price before surcharge is flat_total, and
\* the type's base_price only when flat_total is absent.
C8_Flat ==
    PricedBy("FLAT") =>
        Val(last.calculated) =
            IF Val(last.rule).flat_total # None
            THEN 4 * Val(Val(last.rule).flat_total)
            ELSE 4 * BaseOfLast

\* The final price is the total rounded to the cent.
RoundedToCent ==
    /\ 4 * Val(last.price) - Val(last.total) <= 2
    /\ Val(last.total) - 4 * Val(last.price) <= 2

\* C9: for every calculation type the final price is the calculated price
\* plus oversize_surcharge exactly when the parcel is oversize and the
\* surcharge is greater than 0, rounded to the cent; when the parcel is not
\* oversize the surcharge is never added.
C9_SurchargeWhenPositive ==
    (ReachedRules /\ last.rule # None) =>
        /\ Val(last.total) = Val(last.calculated)
              + (IF last.is_oversize /\ Val(last.rule).oversize_surcharge > 0
                 THEN 4 * Val(last.rule).oversize_surcharge ELSE 0)
        /\ RoundedToCent

\* C10: for a weight <= 0 an evaluation never returns a price, and
\* calculate_quote_api answers with its invalid-input failure.
C10_NonPositiveWeightNoPrice ==
    (last.op \in {"api", "auto"} /\ last.weight <= 0) =>
        /\ last.price = None
        /\ last.op = "api" => last.outcome = "invalid"

\* C11: a distance of 0 km with a positive weight is not rejected: the
\* evaluation goes on to rule matching and ends priced or in no match, not
\* in the invalid-input failure (nor in the early return of
\* calculate_auto_price).
C11_ZeroDistanceNotRejected ==
    (last.op \in {"api", "auto"} /\ last.distance = 0 /\ last.weight > 0) =>
        last.outcome \notin {"invalid", "missing"}

\* C11 as amended: a distance of 0 km with a positive weight is rejected:
\* calculate_quote_api answers with its invalid-input failure and
\* Order.calculate_auto_price returns None, both before any rule is matched,
\* and no price is returned or stored.
C11_ZeroDistanceRejected ==
    (last.op \in {"api", "auto"} /\ last.distance = 0 /\ last.weight > 0) =>
        /\ last.op = "api" => last.outcome = "invalid"
        /\ last.op = "auto" => last.outcome = "missing"
        /\ last.rule = None
        /\ last.price = None
        /\ last.auto_calculated_amount = None

\* C11 witness: a quote for distance 0 and a positive weight refused as
\* invalid although an active rule of the active type matches the input.
C11_Witness ==
    /\ last.op = "api"
    /\ last.distance = 0
    /\ last.weight > 0
    /\ last.outcome = "invalid"
    /\ \E t \in deliveryTypes : t.code = last.delivery_speed /\ t.is_active
    /\ \E r \in pricingRules :
          /\ r.delivery_type = last.delivery_speed
          /\ r.is_active
          /\ MatchesLast(r)

\* C12: a quote request with valid weight and distance whose delivery_speed
\* names no active DeliveryType (no row with that code, or a row with
\* is_active false) gets the unknown-type failure with no estimate, and the
\* rule that prices an evaluation is never one of an inactive type.
C12_UnknownOrInactiveType ==
    /\ (/\ last.op = "api"
        /\ last.distance > 0
        /\ last.weight > 0
        /\ ~\E t \in deliveryTypes : t.code = last.delivery_speed /\ t.is_active)
          => /\ last.outcome = "unknown_type"
             /\ last.rule = None
             /\ last.price = None
    /\ (last.op \in {"api", "auto"} /\ last.rule # None)
          => \E t \in deliveryTypes :
                t.code = Val(last.rule).delivery_type /\ t.is_active

\* C12 witness: a valid quote request for a type that exists but is
\* inactive, refused although an active rule of that type matches the input.
C12_Witness ==
    /\ last.op = "api"
    /\ last.outcome = "unknown_type"
    /\ \E t \in deliveryTypes : t.code = last.delivery_speed /\ ~t.is_active
    /\ \E r \in pricingRules :
          /\ r.delivery_type = last.delivery_speed
          /\ r.is_active
          /\ MatchesLast(r)

\* C13: a quote request with valid inputs and an active delivery type none
\* of whose active rules matches gets the no-match failure with no estimate;
\* and an estimate is only ever the price calculate_price gives for an
\* active rule of the requested type that matches the input.
C13_NoMatchNoEstimate ==
    /\ (/\ last.op = "api"
        /\ last.distance > 0
        /\ last.weight > 0
        /\ \E t \in deliveryTypes : t.code = last.delivery_speed /\ t.is_active
        /\ \A r \in pricingRules :
              (r.delivery_type = last.delivery_speed /\ r.is_active)
                 => ~MatchesLast(r))
          => /\ last.outcome = "no_match"
             /\ last.price = None
    /\ (last.op = "api" /\ last.price # None)
          => /\ last.outcome = "priced"
             /\ \E r \in pricingRules :
                   /\ r.delivery_type = last.delivery_speed
                   /\ r.is_active
                   /\ MatchesLast(r)
                   /\ last.rule = Some(r)
                   /\ \E up \in BOOLEAN :
                         Val(last.price) =
                            calculate_price(r, BaseOfLast, last.distance,
                                            last.weight, last.is_oversize, up).price

\* C13 witness: a valid quote request for an active type refused with no
\* match: its active rule does not take the parcel, and the rule that would
\* is inactive.
C13_Witness ==
    /\ last.op = "api"
    /\ last.outcome = "no_match"
    /\ \E r \in pricingRules :
          r.delivery_type = last.delivery_speed /\ r.is_active /\ ~MatchesLast(r)
    /\ \E r \in pricingRules :
          r.delivery_type = last.delivery_speed /\ ~r.is_active /\ MatchesLast(r)

\* C14: Order.calculate_auto_price takes a legacy path (PricingTier table or
\* PricingConfiguration) only when the order has no active delivery type
\* with active rules; when the type is active and none of its active rules
\* matches, the order gets no auto-calculated price (orders with a positive
\* weight and distance).
C14_LegacyOnlyWithoutRuleData ==
    /\ (/\ last.op = "auto"
        /\ last.weight > 0
        /\ last.distance > 0
        /\ last.outcome \in {"tier", "legacy"})
          => (find_delivery_type(effective_speed(last.delivery_speed)) = None
              \/ RulesRead = {})
    /\ (/\ last.op = "auto"
        /\ last.weight > 0
        /\ last.distance > 0
        /\ find_delivery_type(effective_speed(last.delivery_speed)) # None
        /\ RulesRead # {}
        /\ \A r \in RulesRead : ~MatchesLast(r))
          => /\ last.price = None
             /\ last.auto_calculated_amount = None

\* C15: the final price is the unrounded total rounded once to the cent with
\* round-half-up: a total whose third decimal digit is 5 or more goes to the
\* next cent (total in quarter cents: a remainder of 2 or 3 rounds up).
C15_RoundHalfUp ==
    (ReachedRules /\ last.rule # None) =>
        Val(last.price) =
            (Val(last.total) \div 4) + (IF Val(last.total) % 4 >= 2 THEN 1 ELSE 0)

\* C16: idempotence: a quote request sent again with the same delivery type
\* code, weight, distance and oversize flag against the unchanged catalog
\* gets the same outcome, the same matched rule and the same price, also
\* when rules of the catalog share a priority.
C16_Idempotent ==
    [][(last.op = "api" /\ last'.op = "api")
          => /\ last'.outcome = last.outcome
             /\ last'.rule = last.rule
             /\ last'.price = last.price]_vars

\* A rule without the rate_per_km its PER_KM or CAPPED calculation needs, or
\* a FLAT rule without flat_total.
LacksRequiredField(r) ==
    \/ r.calculation_type \in {"PER_KM", "CAPPED"} /\ r.rate_per_km = None
    \/ r.calculation_type = "FLAT" /\ r.flat_total = None

\* C17: when the first matching rule lacks a field its calculation_type
\* requires (PER_KM or CAPPED without rate_per_km; a FLAT rule without
\* flat_total always has the base_price of its type, a non-null field), the
\* evaluation reports no match rather than a price: no evaluation is priced
\* by such a rule.
C17_MissingFieldNoMatch ==
    (ReachedRules /\ last.rule # None) =>
        ~(/\ Val(last.rule).calculation_type \in {"PER_KM", "CAPPED"}
          /\ Val(last.rule).rate_per_km = None)

\* C17 as amended: when the first matching rule lacks a field its
\* calculation_type requires, the evaluation does not fail and returns a
\* price computed with the missing rate taken as 0: before the surcharge, the
\* type's base_price for PER_KM, at most the base_price (and exactly that
\* when max_price is absent) for CAPPED, and the base_price for a FLAT rule
\* without flat_total.
C17_MissingFieldDefaults ==
    ReachedRules =>
        \A r \in RulesRead :
            (RulesRead = {r} /\ MatchesLast(r) /\ LacksRequiredField(r))
               => /\ last.rule = Some(r)
                  /\ last.outcome = "priced"
                  /\ last.price # None
                  /\ Val(last.calculated) <= 4 * BaseOfLast
                  /\ (r.calculation_type \in {"PER_KM", "FLAT"} \/ r.max_price = None)
                        => Val(last.calculated) = 4 * BaseOfLast

\* C17 witness: a quote priced at the base price by a PER_KM rule that has no
\* rate_per_km.
C17_Witness ==
    /\ last.op = "api"
    /\ last.outcome = "priced"
    /\ Val(last.rule).calculation_type = "PER_KM"
    /\ Val(last.rule).rate_per_km = None
    /\ last.distance > 0
    /\ BaseOfLast > 0
    /\ Val(last.calculated) = 4 * BaseOfLast

\* The catalog is the one setup_helpii_pricing creates.
Seeded == deliveryTypes = SeededTypes /\ pricingRules = SeededRules

\* C18: with the seeded catalog every SAME_DAY quote for a parcel that is
\* not oversize and weighs more than 0 and at most 10 kg is priced
\* 10 + 3 x distance up to 10 km and 10 + 2 x distance beyond (distance in
\* quarter km, price in cents).
C18_SeededSameDaySmall ==
    (/\ Seeded
     /\ last.op \in {"api", "auto"}
     /\ effective_speed(last.delivery_speed) = "SAME_DAY"
     /\ ~last.is_oversize
     /\ last.weight > 0
     /\ last.weight <= 1000
     /\ last.distance > 0)
       => /\ last.outcome = "priced"
          /\ last.price = Some(IF last.distance <= 40
                               THEN 1000 + 75 * last.distance
                               ELSE 1000 + 50 * last.distance)

\* C18 witness: a 10 kg SAME_DAY parcel over exactly 10 km quoted 40.00.
C18_Witness ==
    /\ Seeded
    /\ last.op = "api"
    /\ last.delivery_speed = "SAME_DAY"
    /\ ~last.is_oversize
    /\ last.weight = 1000
    /\ last.distance = 40
    /\ last.price = Some(4000)

\* C19: with the seeded catalog every EXPRESS_2HR quote for a parcel
\* weighing more than 20 kg is priced 30 + 5 x distance + 50.
C19_SeededExpressOverweight ==
    (/\ Seeded
     /\ last.op \in {"api", "auto"}
     /\ effective_speed(last.delivery_speed) = "EXPRESS_2HR"
     /\ last.weight > 2000
     /\ last.distance > 0)
       => /\ last.outcome = "priced"
          /\ last.price = Some(3000 + 125 * last.distance + 5000)

\* C20: the quote preview and the order workflow agree: when a quote request
\* succeeds with an estimate, pricing an order with the same delivery type
\* code, weight, distance and oversize flag against the unchanged catalog
\* returns that price and stores it as auto_calculated_amount.
C20_QuoteAndOrderAgree ==
    [][(last.op = "api" /\ last.outcome = "priced" /\ last'.op = "auto")
          => /\ last'.price = last.price
             /\ last'.auto_calculated_amount = last.price]_vars

\* The well-formedness of a PricingRule row: its weight range is not
\* inverted, its short / long flag has a threshold to compare with, and its
\* calculation_type has the fields its formula reads.
WellFormed(r) ==
    /\ r.weight_max # None => r.weight_min <= Val(r.weight_max)
    /\ r.is_short_trip # None => r.distance_threshold # None
    /\ r.calculation_type = "PER_KM" => r.rate_per_km # None
    /\ r.calculation_type = "CAPPED" => r.rate_per_km # None /\ r.max_price # None
    /\ r.calculation_type = "FLAT" => r.flat_total # None

\* C21: after any sequence of administrative creates and updates every
\* stored PricingRule is well formed (weight_min <= weight_max when both
\* are present, distance_threshold present whenever is_short_trip is set,
\* the fields of its calculation_type present): a write that would store a
\* malformed rule is rejected.
C21_CatalogWellFormed == \A r \in pricingRules : WellFormed(r)

\* The catalog the command seeds has an active rule of the quoted type that
\* matches the held quote.
SeededMatch(r) ==
    /\ r \in SeededRules
    /\ r.is_active
    /\ r.delivery_type = last.delivery_speed
    /\ MatchesLast(r)

\* C22: a quote served while setup_helpii_pricing re-runs on the seeded
\* catalog has the outcome it has against the whole seeded catalog (the
\* catalog before the run and after it): it reports no match only if no
\* seeded rule matches, and it is priced by the matching seeded rule of the
\* lowest priority number.
C22_QuoteSeesWholeCatalog ==
    (last.op = "api" /\ deliveryTypes = SeededTypes) =>
        /\ last.outcome = "no_match" => \A r \in SeededRules : ~SeededMatch(r)
        /\ last.outcome = "priced" =>
              \A r \in SeededRules :
                  SeededMatch(r) => Val(last.rule).priority <= r.priority

\* The number the day's next order is to get: 1 if no stored order has the
\* day's prefix, otherwise one more than the largest number among them.
ExpectedNumber(date) ==
    LET ns == {order_number(o.order_id) :
                  o \in {x \in orders : startswith_prefix(x.order_id, date)}}
    IN  IF ns = {} THEN 1 ELSE Max(ns) + 1

\* C23: with orders created and deleted one after another, every stored
\* order has an order_id ORD-<date>-<n> with n >= 1, no two stored orders
\* share an order_id, the order_id a save builds for its day has n = 1 if
\* no stored order has that day's prefix and otherwise one more than the
\* largest n among them, and the save stores the order.
C23_SequentialOrderIds ==
    /\ \A o \in orders :
          /\ Len(o.order_id) = 3
          /\ o.order_id[1] = "ORD"
          /\ order_number(o.order_id) >= 1
    /\ \A o1, o2 \in orders : o1.order_id = o2.order_id => o1 = o2
    /\ saving[1].pc = "computed" =>
          order_number(saving[1].order_id) = ExpectedNumber(saving[1].date_str)
    /\ saving[1].result # "IntegrityError"

\* C24: two new orders saved concurrently on the same day never build the
\* same order_id, and each of the two saves stores its order.
C24_ConcurrentSavesDistinct ==
    /\ \A p, q \in Savers :
          (/\ p # q
           /\ saving[p].pc = "computed"
           /\ saving[q].pc = "computed"
           /\ saving[p].date_str = saving[q].date_str)
             => saving[p].order_id # saving[q].order_id
    /\ \A p \in Savers : saving[p].result # "IntegrityError"

\* A quote request with a positive weight and distance for one of the three
\* seeded delivery types, answered against the seeded catalog.
SeededQuote ==
    /\ Seeded
    /\ last.op = "api"
    /\ last.delivery_speed \in {"EXPRESS_2HR", "SAME_DAY", "OVERNIGHT"}
    /\ last.weight > 0
    /\ last.distance > 0

\* The one gap of the seeded catalog: an oversize SAME_DAY parcel heavier
\* than 20 kg (Same Day Oversize stops at 20 kg, the weight rules refuse
\* oversize parcels).
HeavyOversizeSameDay ==
    /\ last.delivery_speed = "SAME_DAY"
    /\ last.is_oversize
    /\ last.weight > 2000

PricesAt(d) ==
    {Val(q.price) :
        q \in {x \in {calculate_quote_api(d, last.weight, last.delivery_speed,
                                          last.is_oversize, rows, up) :
                         rows \in order_by_priority(active_rules(last.delivery_speed)),
                         up \in BOOLEAN} : x.outcome = "priced"}}

\* The held quote is for a SAME_DAY parcel of at most 10 kg that is not
\* oversize, and d lies beyond the 10 km threshold that the held quote's
\* distance does not exceed.
CrossesSmallThreshold(d) ==
    /\ last.delivery_speed = "SAME_DAY"
    /\ ~last.is_oversize
    /\ last.weight <= 1000
    /\ last.distance <= 40
    /\ d > 40

\* C26: with the seeded catalog, for a fixed delivery type, weight and
\* oversize flag, a priced quote at a distance d2 >= d1 is never cheaper
\* than the priced quote at d1.
C26_MonotoneInDistance ==
    (Seeded /\ last.op = "api" /\ last.outcome = "priced") =>
        \A d2 \in Distances :
            d2 >= last.distance => \A p2 \in PricesAt(d2) : Val(last.price) <= p2

\* C26 as amended: the same, except from a distance of at most 10 km to one
\* beyond 10 km for a SAME_DAY parcel of at most 10 kg that is not oversize,
\* where the rate drops from 3.00 to 2.00 per km.
C26_MonotoneButSmallThreshold ==
    (Seeded /\ last.op = "api" /\ last.outcome = "priced") =>
        \A d2 \in Distances :
            (d2 >= last.distance /\ ~CrossesSmallThreshold(d2))
                => \A p2 \in PricesAt(d2) : Val(last.price) <= p2

\* C26 witness: a 10.01 kg SAME_DAY parcel quoted 60.00 at 10 km, whose
\* quote across the threshold, at 10.25 km, is 70.00.
C26_Witness ==
    /\ Seeded
    /\ last.op = "api"
    /\ last.delivery_speed = "SAME_DAY"
    /\ ~last.is_oversize
    /\ last.weight = 1001
    /\ last.distance = 40
    /\ last.price = Some(6000)
    /\ PricesAt(41) = {7000}

\* The active seeded rules of delivery type t that match the input of the
\* held evaluation.
SeededMatches(t) ==
    {r \in pricingRules : /\ r.is_active
                          /\ r.delivery_type = t
                          /\ MatchesLast(r)}

\* C30: with the seeded catalog, for every delivery type and every input
\* (weight, distance, oversize flag) at most one active rule matches, and a
\* quote that is priced is priced by that one rule, whatever the priorities
\* and the order in which the rows are read.
C30_SeededRulesDisjoint ==
    (Seeded /\ last.op \in {"api", "auto"}) =>
        /\ \A t \in {x.code : x \in deliveryTypes} : Cardinality(SeededMatches(t)) <= 1
        /\ last.rule # None =>
              SeededMatches(effective_speed(last.delivery_speed)) = {Val(last.rule)}

\* C30 witness: an oversize SAME_DAY parcel of 10 kg over 10 km, priced by
\* Same Day Oversize; but for the oversize flag the weight and distance are
\* those of Same Day Small Short Trip as well.
C30_Witness ==
    /\ Seeded
    /\ last.op = "api"
    /\ last.outcome = "priced"
    /\ last.delivery_speed = "SAME_DAY"
    /\ last.is_oversize
    /\ last.weight = 1000
    /\ last.distance = 40
    /\ last.rule = Some(SameDayOversize)
    /\ weight_gate(SameDaySmallShortTrip, last.weight)
    /\ distance_gate(SameDaySmallShortTrip, last.distance)

\* C29, first part: a matched FLAT rule with flat_total = 0 yields 0 before
\* the surcharge, and 0 plus the surcharge after it.
C29_FlatZero ==
    (PricedBy("FLAT") /\ Val(last.rule).flat_total = Some(0)) =>
        /\ last.calculated = Some(0)
        /\ Val(last.total) = surcharge_added(Val(last.rule), last.is_oversize)

\* C29, second part: a rule with weight_max = 0 is used for no parcel of
\* positive weight.
C29_WeightMaxZero ==
    (ReachedRules /\ last.rule # None /\ Val(last.rule).weight_max = Some(0))
        => last.weight <= 0

\* C29: a zero stored in a rule field is honoured as a present value, in
\* flat_total (the price is 0 plus any surcharge, not the type's base_price)
\* and in weight_max (no parcel of positive weight matches).
C29_ZeroIsPresent == C29_FlatZero /\ C29_WeightMaxZero

\* C28: after any sequence of admin_order_detail_view actions every ACCEPTED
\* order has a courier_amount and an accepted_at timestamp, and an ACCEPTED
\* order that is not paid can be paid.
C28_AcceptedIsPayable ==
    \A order \in orders :
        order.status = "ACCEPTED" =>
            /\ order.courier_amount # None
            /\ order.accepted_at # None
            /\ ~order.is_paid => can_be_paid(order)

\* The gateway has confirmed the payment: its Stripe intent has succeeded or
\* its PayPal payment has been executed.
GatewayConfirmed(payment) ==
    \E g \in gateway :
        /\ g.order = payment.order
        /\ \/ payment.stripe_payment_intent_id = Some(g.id) /\ g.state = "succeeded"
           \/ payment.paypal_order_id = Some(g.id) /\ g.state = "executed"

\* An order is paid, and a Payment COMPLETED, only with the gateway's
\* confirmation.
PaidOnlyWhenConfirmed ==
    /\ \A order \in orders :
          order.is_paid => \E payment \in payments : /\ payment.order = order.order_id
                                                     /\ GatewayConfirmed(payment)
    /\ \A payment \in payments :
          payment.status = "COMPLETED" => GatewayConfirmed(payment)

\* A Payment that is FAILED is not COMPLETED by the next step.
FailedStaysFailed ==
    \A payment \in payments :
        payment.status = "FAILED" =>
            \A after \in payments' :
                after.transaction_id = payment.transaction_id
                    => after.status # "COMPLETED"

\* C27: an order's is_paid flag is true, and a Payment COMPLETED, only after
\* the gateway has confirmed a payment of that order (a succeeded Stripe
\* intent or an executed PayPal payment), and a Payment marked FAILED is
\* never marked COMPLETED afterwards.
C27_PaidOnlyAfterConfirmation == []PaidOnlyWhenConfirmed /\ [][FailedStaysFailed]_vars
====
